---------------------------- MODULE Spec2Model ----------------------------
(***************************************************************************)
(* State-machine model of the human-alert-app client:                      *)
(*   - services/emergencySound.ts : the alert burst (sound + vibration)    *)
(*   - services/socket.ts         : SocketService and the zustand store    *)
(*   - the home screen (tabs/index): trigger, cooldown, auto-expiry and     *)
(*     the socket handlers it registers                                    *)
(* Every await of the source is a separate step, so that the interleavings *)
(* of the JavaScript event loop are the interleavings of the actions.      *)
(* The platform is a native one (Platform.OS # 'web').                     *)
(***************************************************************************)
EXTENDS Integers, Sequences, FiniteSets

\* ------------------------------------------------------------------ bounds
\* Number of playEmergencySoundAsync invocations that pass the isPlaying gate.
MaxCalls == 3
\* Number of sockets SocketService.connect creates (io(...) calls).
MaxSockets == 3
\* Number of handleEmergencyPress invocations that can be under way at once.
MaxPresses == 2
\* Number of nearby-alerts fetches that can be under way at once.
MaxFetches == 1
\* The largest responder_count an event or a reply carries.
MaxCount == 2
\* Number of times reset() is applied in a row.
MaxResets == 2
\* Number of location watches that can be pending or active at once.
MaxWatches == 2
\* Time passes a second at a time while a running clock (the cooldown, the
\* alert's age) is within this many seconds of its start or of its end; a
\* stretch in which every running clock is farther from both passes in one step.
EventWindow == 1

\* ------------------------------------------------------------ emergencySound
\* `soundObject = null`
NoSound == 0

CallIds == 1..MaxCalls

VARIABLES
  isPlaying,      \* module flag isPlaying
  isInitialized,  \* module flag isInitialized
  soundObject,    \* module variable soundObject: NoSound or the id of a sound
  sounds,         \* sounds[i]: state of the Audio.Sound created by invocation i
  calls,          \* calls[i]: where invocation i of playEmergencySoundAsync stands
  timers,         \* timers[i]: where the 4 s cleanup callback of invocation i stands
  timerQueue,     \* armed 4 s timeouts, in the order they were set
  vibrating,      \* a vibration pattern started by Vibration.vibrate is running
  stoppedCalls    \* history: invocations begun before a stopEmergencyAlert call

soundVars == <<isPlaying, isInitialized, soundObject, sounds, calls, timers,
               timerQueue, vibrating, stoppedCalls>>

\* The sound module's state without the vibration.
soundState == <<isPlaying, isInitialized, soundObject, sounds, calls, timers,
                timerQueue, stoppedCalls>>

\* ------------------------------------------------------------ SocketService
\* `socket: Socket | null = null`, `deviceId: string | null = null`
NoSocket == 0
NoDevice == 0
\* `maxReconnectAttempts = 10`
maxReconnectAttempts == 10

SocketIds == 1..MaxSockets
DeviceIds == {1, 2}
AlertIds == {1, 2}

\* The rooms of the server: one per device, one per alert.
DeviceRoom(d) == <<"device", d>>
AlertRoom(a) == <<"alert", a>>

\* The events a listener can be registered for.
SocketEvents == {"connect", "disconnect", "connect_error", "reconnect",
                 "alert_received", "new_alert", "alert_location_updated",
                 "alert_ended", "radius_expanded", "responder_added"}

VARIABLES
  socket,            \* SocketService.socket: NoSocket or the id of a socket
  sockDeviceId,      \* SocketService.deviceId
  reconnectAttempts, \* SocketService.reconnectAttempts
  sockState,         \* sockState[k]: "unused", "connecting", "connected",
                     \*   "reconnecting", "disconnected" (no retry running), "closed"
  listeners,         \* the listeners of the current socket, in registration order
  sendBuffer,        \* rooms asked for while not connected (socket.io buffers emits)
  serverRooms,       \* rooms the server has the current connection in
  subscribedAlerts   \* history: alert ids given to subscribeToAlert on this socket

sockVars == <<socket, sockDeviceId, reconnectAttempts, sockState, listeners,
              sendBuffer, serverRooms, subscribedAlerts>>

\* ------------------------------------------------------------ home screen
\* `myActiveAlert: null`, `incomingAlert: null`
NoAlert == 0
\* `alertStartTime: null`
NotStarted == -1
\* `const ALERT_DURATION = 1200`
ALERT_DURATION == 1200
\* `setCooldownRemaining(60)`
TRIGGER_COOLDOWN == 60
\* The identity loadDeviceId gives this device.
ThisDevice == 1
\* expoPushToken changes once, from null to the token registerForPushNotifications
\* obtains; each change runs the home screen's setup effect again.
TokenChanges == 1

SetupIds == 1..(TokenChanges + 1)
PressIds == 1..MaxPresses

VARIABLES
  deviceId,          \* store: deviceId (NoDevice until loadDeviceId has set it)
  pushToken,         \* useNotifications: expoPushToken, as the number of its changes
  hasPermission,     \* useLocation: hasPermission
  isConnected,       \* store: isConnected
  myActiveAlert,     \* store: myActiveAlert, as its alert_id, or NoAlert
  canTrigger,        \* store: canTrigger
  cooldownRemaining, \* store: cooldownRemaining
  nearbyAlerts,      \* store: nearbyAlerts, as the sequence of their alert_ids
  incomingAlert,     \* HomeScreen state: incomingAlert, as its alert_id, or NoAlert
  isProcessing,      \* HomeScreen state: isProcessing
  alertAge,          \* HomeScreen state: alertStartTime, as the whole seconds
                     \*   Date.now() is past it, or NotStarted for null
  timersDue,         \* the interval callbacks ("cooldown", "alert") that the last
                     \*   second's end made due and that have not run yet
  presses,           \* presses[i]: where invocation i of handleEmergencyPress stands
  setups,            \* setups[r]: where run r of setupDevice stands, and the
                     \*   values its closures captured
  activeFor,         \* history: seconds myActiveAlert has been non-null without a break
  endedOwn           \* history: the last step delivered an alert_ended that carried
                     \*   the alert_id myActiveAlert had at the delivery

homeVars == <<deviceId, pushToken, hasPermission, isConnected, myActiveAlert,
              canTrigger, cooldownRemaining, nearbyAlerts, incomingAlert,
              isProcessing, alertAge, timersDue, presses, setups, activeFor,
              endedOwn>>

FetchIds == 1..MaxFetches

VARIABLES
  fetchSeen,         \* the incomingAlert that updateAndFetchData closes over: its
                     \*   value at the last run of the periodic-update effect
  fetches,           \* fetches[i]: nearby-alerts fetch i, with the values its
                     \*   closure captured, the reply on its way, and (history)
                     \*   the alerts of the reply ended since the request
  dismissed          \* (history) the alert dismissed last, NoAlert once an
                     \*   alert_received has arrived since

inboxVars == <<fetchSeen, fetches, dismissed>>

\* ------------------------------------------------------------ alert view
\* alertDetails before getAlertDetails resolved (null).
NoDetails == -1
\* An event without responder_count.
NoCount == -1

Counts == 0..MaxCount

\* `watchSubscription.current = null`
NoWatch == 0
WatchIds == 1..MaxWatches

\* Bearings are in [0, 360): calculateBearing returns (bearing + 360) % 360.
FullCircle == 360
\* A bearing is modelled by its number of half degrees.
HalfDegrees == 0..(2 * FullCircle - 1)

\* Floating-point numbers are modelled in fixed point: x is the integer nearest
\* to x * Scale. Angles are kept in degrees (x * Math.PI / 180 is x degrees).
Scale == 10000
\* Math.PI, in fixed point.
Pi == 31416
\* const R = 6371000
R == 6371000
\* The latitudes and longitudes the distance is computed for: multiples of 30
\* degrees, 0 among them.
Latitudes == {-60, -30, 0, 30, 60}
Longitudes == {-150, -30, 0, 90}
Coordinates == [latitude : Latitudes, longitude : Longitudes]

VARIABLES
  alertView,         \* the alert view screen: alertId is the route parameter
                     \*   (NoAlert while the screen is closed), alertDetails the
                     \*   responder_count of the details (NoDetails while null)
  calc,              \* a helper function applied to arguments: the arguments
                     \*   and, once it returned, the result
  watch              \* the location watches: ref is watchSubscription.current
                     \*   of the mounted alert view's useLocation, subs[w] is
                     \*   "pending" while watchPositionAsync of a mounted view
                     \*   is awaited, "orphan" while that of an unmounted view
                     \*   is, "active" while the platform delivers positions

viewVars == <<alertView, calc, watch>>

vars == <<soundVars, sockVars, homeVars, inboxVars, viewVars>>

notSoundVars == <<sockVars, homeVars, inboxVars, viewVars>>
notSockVars == <<soundVars, homeVars, inboxVars, viewVars>>

SoundInit ==
  /\ isPlaying = FALSE
  /\ isInitialized = FALSE
  /\ soundObject = NoSound
  /\ sounds = [i \in CallIds |-> "none"]
  /\ calls = [i \in CallIds |-> "unused"]
  /\ timers = [i \in CallIds |-> "none"]
  /\ timerQueue = <<>>
  /\ vibrating = FALSE
  /\ stoppedCalls = {}

\* sound.stopAsync(): a loaded sound stops playing; on an unloaded sound the
\* promise rejects.
StopSound(snds, s) ==
  IF snds[s] = "playing" THEN [snds EXCEPT ![s] = "stopped"] ELSE snds

\* sound.unloadAsync()
UnloadSound(snds, s) == [snds EXCEPT ![s] = "unloaded"]

\* Lines 60-78 of playEmergencySoundAsync, run synchronously up to the next
\* await: unload the previous sound if there is one, else start creating.
UnloadOrCreate(i) ==
  IF soundObject # NoSound
    THEN /\ sounds' = UnloadSound(sounds, soundObject)
         /\ calls' = [calls EXCEPT ![i] = "awaitUnload"]
    ELSE /\ sounds' = sounds
         /\ calls' = [calls EXCEPT ![i] = "awaitCreate"]

\* The isPlaying gate of playEmergencySoundAsync.
GateOpen == ~isPlaying

\* Vibration.vibrate is called inside try/catch.
VibrationCaught == TRUE

\* A playAlertBurst that awaits the sound it starts: it returns to its caller
\* in the same step only when the gate is closed.
BurstReturns_SoundAwaited(throws) == (throws => VibrationCaught) /\ ~GateOpen

\* playAlertBurst returns to its caller: an error of the vibration is caught,
\* and playEmergencySoundAsync, an async function that is not awaited, hands
\* back a promise whatever happens inside it.
BurstReturns(throws) == throws => VibrationCaught

\* playAlertBurst(): vibrate, then playEmergencySoundAsync up to its first await.
\* A call that finds the gate closed returns after the vibration. `throws`: the
\* platform's Vibration.vibrate throws.
Burst(throws) ==
  /\ vibrating' = IF throws THEN vibrating ELSE TRUE
  /\ IF BurstReturns(throws) /\ GateOpen
       THEN \E i \in CallIds :
              /\ calls[i] = "unused"
              /\ \A j \in CallIds : j < i => calls[j] # "unused"
              /\ isPlaying' = TRUE
              /\ IF ~isInitialized
                   THEN /\ calls' = [calls EXCEPT ![i] = "awaitInit"]
                        /\ sounds' = sounds
                   ELSE UnloadOrCreate(i)
       ELSE UNCHANGED <<isPlaying, calls, sounds>>
  /\ UNCHANGED <<isInitialized, soundObject, timers, timerQueue, stoppedCalls>>

\* playAlertBurst() on a device whose vibrator works.
DoPlayAlertBurst == Burst(FALSE)

\* playAlertBurst() called on its own (a notification, the respond button).
PlayAlertBurst == DoPlayAlertBurst /\ UNCHANGED notSoundVars

\* initializeAudio() called from the root layout at start: setAudioModeAsync
\* resolved.
RootInitializeAudio ==
  /\ ~isInitialized
  /\ isInitialized' = TRUE
  /\ UNCHANGED <<isPlaying, soundObject, sounds, calls, timers, timerQueue,
                 vibrating, stoppedCalls>>
  /\ UNCHANGED notSoundVars

\* `await initializeAudio()` returns in invocation i; initializeAudio catches its
\* own error, so the invocation goes on either way.
InitializeAudioDone(i, ok) ==
  /\ calls[i] = "awaitInit"
  /\ isInitialized' = (isInitialized \/ ok)
  /\ UnloadOrCreate(i)
  /\ UNCHANGED <<isPlaying, soundObject, timers, timerQueue, vibrating, stoppedCalls>>
  /\ UNCHANGED notSoundVars

\* `await soundObject.unloadAsync()` returns in invocation i (an error is ignored);
\* soundObject = null, then createAsync is called.
UnloadDone(i) ==
  /\ calls[i] = "awaitUnload"
  /\ soundObject' = NoSound
  /\ calls' = [calls EXCEPT ![i] = "awaitCreate"]
  /\ UNCHANGED <<isPlaying, isInitialized, sounds, timers, timerQueue, vibrating,
                 stoppedCalls>>
  /\ UNCHANGED notSoundVars

\* Audio.Sound.createAsync resolved in invocation i: the sound plays
\* (shouldPlay: true), soundObject = sound, the 4 s cleanup is scheduled.
CreateResolved(i) ==
  /\ calls[i] = "awaitCreate"
  /\ sounds' = [sounds EXCEPT ![i] = "playing"]
  /\ soundObject' = i
  /\ timers' = [timers EXCEPT ![i] = "armed"]
  /\ timerQueue' = Append(timerQueue, i)
  /\ calls' = [calls EXCEPT ![i] = "done"]
  /\ UNCHANGED <<isPlaying, isInitialized, vibrating, stoppedCalls>>
  /\ UNCHANGED notSoundVars

\* Audio.Sound.createAsync rejected in invocation i: the catch block.
CreateRejected(i) ==
  /\ calls[i] = "awaitCreate"
  /\ isPlaying' = FALSE
  /\ calls' = [calls EXCEPT ![i] = "failed"]
  /\ UNCHANGED <<isInitialized, soundObject, sounds, timers, timerQueue, vibrating,
                 stoppedCalls>>
  /\ UNCHANGED notSoundVars

\* The 4 s timeout of invocation i fires (timeouts of equal delay fire in the
\* order they were set): the callback runs to its first await.
CleanupFires(i) ==
  /\ timerQueue # <<>>
  /\ Head(timerQueue) = i
  /\ timerQueue' = Tail(timerQueue)
  /\ IF soundObject = NoSound
       THEN /\ isPlaying' = FALSE
            /\ timers' = [timers EXCEPT ![i] = "done"]
            /\ sounds' = sounds
       ELSE /\ isPlaying' = isPlaying
            /\ timers' = [timers EXCEPT ![i] =
                 IF sounds[soundObject] = "unloaded" THEN "stopRejected" ELSE "awaitStop"]
            /\ sounds' = StopSound(sounds, soundObject)
  /\ UNCHANGED <<isInitialized, soundObject, calls, vibrating, stoppedCalls>>
  /\ UNCHANGED notSoundVars

\* `await soundObject.stopAsync()` returns in the cleanup of invocation i.
\* Rejected: the catch block, then isPlaying = false.  Resolved: the callback
\* reads soundObject again for unloadAsync(); null there is a TypeError, caught.
CleanupStopDone(i) ==
  /\ timers[i] \in {"awaitStop", "stopRejected"}
  /\ IF timers[i] = "stopRejected" \/ soundObject = NoSound
       THEN /\ isPlaying' = FALSE
            /\ timers' = [timers EXCEPT ![i] = "done"]
            /\ sounds' = sounds
       ELSE /\ isPlaying' = isPlaying
            /\ timers' = [timers EXCEPT ![i] = "awaitUnload"]
            /\ sounds' = UnloadSound(sounds, soundObject)
  /\ UNCHANGED <<isInitialized, soundObject, calls, timerQueue, vibrating, stoppedCalls>>
  /\ UNCHANGED notSoundVars

\* `await soundObject.unloadAsync()` returns in the cleanup of invocation i:
\* soundObject = null; isPlaying = false.
CleanupUnloadDone(i) ==
  /\ timers[i] = "awaitUnload"
  /\ soundObject' = NoSound
  /\ isPlaying' = FALSE
  /\ timers' = [timers EXCEPT ![i] = "done"]
  /\ UNCHANGED <<isInitialized, sounds, calls, timerQueue, vibrating, stoppedCalls>>
  /\ UNCHANGED notSoundVars

\* stopEmergencyAlert()
StopEmergencyAlert ==
  /\ isPlaying' = FALSE
  /\ vibrating' = FALSE
  /\ IF soundObject # NoSound
       THEN sounds' = UnloadSound(StopSound(sounds, soundObject), soundObject)
       ELSE sounds' = sounds
  /\ soundObject' = NoSound
  /\ stoppedCalls' = {i \in CallIds : calls[i] # "unused"}
  /\ UNCHANGED <<isInitialized, calls, timers, timerQueue>>
  /\ UNCHANGED notSoundVars

\* The vibration pattern has run to its end (it is not repeated).
VibrationEnds ==
  /\ vibrating
  /\ vibrating' = FALSE
  /\ UNCHANGED <<isPlaying, isInitialized, soundObject, sounds, calls, timers,
                 timerQueue, stoppedCalls>>
  /\ UNCHANGED notSoundVars

\* ------------------------------------------------------------ SocketService

SocketInit ==
  /\ socket = NoSocket
  /\ sockDeviceId = NoDevice
  /\ reconnectAttempts = 0
  /\ sockState = [k \in SocketIds |-> "unused"]
  /\ listeners = <<>>
  /\ sendBuffer = <<>>
  /\ serverRooms = {}
  /\ subscribedAlerts = {}

\* A listener: the event, the callback, and what the callback's closure captured.
NoCapture == [my |-> 0, incoming |-> 0, nearby |-> <<>>]
Listener(ev, fn) == [ev |-> ev, fn |-> fn, cap |-> NoCapture]

HasListener(ev, fn) ==
  \E n \in 1..Len(listeners) : listeners[n].ev = ev /\ listeners[n].fn = fn

\* The four listeners connect() registers on a new socket.
ConnectionListeners ==
  << Listener("connect", "onConnect"),
     Listener("disconnect", "onDisconnect"),
     Listener("connect_error", "onConnectError"),
     Listener("reconnect", "onReconnect") >>

SocketLive(k) ==
  sockState[k] \in {"connecting", "connected", "reconnecting", "disconnected"}
SocketConnected == socket # NoSocket /\ sockState[socket] = "connected"

\* A connect that leaves the old socket as it is (faulty variant of CloseSocket).
CloseSocket_Forgotten(st, k) == st

\* socket.disconnect() on socket k: the client closes it; it does not reconnect.
CloseSocket(st, k) == [st EXCEPT ![k] = "closed"]

\* connect(deviceId) returns at once: connected, for the same device.
AlreadyConnected(d) == SocketConnected /\ sockDeviceId = d

\* connect(deviceId), but for the listeners of the socket.
ConnectSocket(d) ==
  IF AlreadyConnected(d)
    THEN UNCHANGED <<socket, sockDeviceId, reconnectAttempts, sockState, sendBuffer,
                     serverRooms, subscribedAlerts>>
    ELSE \E k \in SocketIds :
           /\ sockState[k] = "unused"
           /\ \A j \in SocketIds : j < k => sockState[j] # "unused"
           /\ sockState' = [(IF socket # NoSocket THEN CloseSocket(sockState, socket)
                                                  ELSE sockState) EXCEPT ![k] = "connecting"]
           /\ socket' = k
           /\ sockDeviceId' = d
           /\ sendBuffer' = <<>>
           /\ serverRooms' = {}
           /\ subscribedAlerts' = {}
           /\ UNCHANGED reconnectAttempts

\* The listeners of the service's socket after connect(deviceId).
ListenersAfterConnect(d) ==
  IF AlreadyConnected(d) THEN listeners ELSE ConnectionListeners

\* connect(deviceId)
DoConnect(d) ==
  /\ ConnectSocket(d)
  /\ listeners' = ListenersAfterConnect(d)

Connect(d) == DoConnect(d) /\ UNCHANGED notSockVars

\* disconnect()
Disconnect ==
  /\ socket # NoSocket
  /\ sockState' = CloseSocket(sockState, socket)
  /\ socket' = NoSocket
  /\ listeners' = <<>>
  /\ sendBuffer' = <<>>
  /\ serverRooms' = {}
  /\ subscribedAlerts' = {}
  /\ UNCHANGED <<sockDeviceId, reconnectAttempts>>
  /\ UNCHANGED notSockVars

\* joinDeviceRoom(), as run by a listener of the now connected socket: the rooms
\* the server has the connection in afterwards.
JoinDeviceRoom(rooms) ==
  IF socket # NoSocket /\ sockDeviceId # NoDevice
    THEN rooms \cup {DeviceRoom(sockDeviceId)}
    ELSE rooms

\* The rooms after the listeners of the socket have run on a connection:
\* those of 'connect' and, when the library also emits 'reconnect' on the
\* socket (reconnectEvent), those of 'reconnect'.
RoomsAfterConnect(rooms, reconnectEvent) ==
  IF \/ HasListener("connect", "onConnect")
     \/ HasListener("connect", "rejoin")
     \/ reconnectEvent /\ HasListener("reconnect", "onReconnect")
    THEN JoinDeviceRoom(rooms)
    ELSE rooms

\* The transport of the current socket is up: buffered emits are sent, then the
\* listeners run.  Whether a reconnection also emits 'reconnect' on the socket
\* depends on the socket.io-client version (2.x does, later ones do not).
TransportConnected(reconnectEvent) ==
  /\ socket # NoSocket
  /\ sockState[socket] \in {"connecting", "reconnecting"}
  /\ reconnectEvent => sockState[socket] = "reconnecting"
  /\ sockState' = [sockState EXCEPT ![socket] = "connected"]
  /\ serverRooms' = RoomsAfterConnect({sendBuffer[n] : n \in 1..Len(sendBuffer)},
                                      reconnectEvent)
  /\ sendBuffer' = <<>>
  /\ reconnectAttempts' =
       IF HasListener("connect", "onConnect") THEN 0 ELSE reconnectAttempts
  /\ UNCHANGED <<socket, sockDeviceId, listeners, subscribedAlerts>>
  /\ UNCHANGED notSockVars

\* A connection attempt of the current socket failed: 'connect_error'.  After
\* maxReconnectAttempts the socket gives up.
TransportError ==
  /\ socket # NoSocket
  /\ sockState[socket] \in {"connecting", "reconnecting"}
  /\ reconnectAttempts < maxReconnectAttempts
  /\ reconnectAttempts' =
       IF HasListener("connect_error", "onConnectError")
         THEN reconnectAttempts + 1 ELSE reconnectAttempts
  /\ sockState' = [sockState EXCEPT ![socket] =
       IF reconnectAttempts + 1 >= maxReconnectAttempts THEN "disconnected"
                                                         ELSE sockState[socket]]
  /\ UNCHANGED <<socket, sockDeviceId, listeners, sendBuffer, serverRooms,
                 subscribedAlerts>>
  /\ UNCHANGED notSockVars

\* The reasons of a 'disconnect' the client did not ask for.
DisconnectReasons == {"io server disconnect", "transport close", "ping timeout"}

\* The connection of the current socket is lost: the server forgets its rooms.
\* socket.io retries by itself unless the server closed the connection; the
\* 'disconnect' listener of connect() calls socket.connect() for the reasons
\* 'io server disconnect' and 'transport close'.
Disconnected(reason) ==
  /\ SocketConnected
  /\ serverRooms' = {}
  /\ sockState' = [sockState EXCEPT ![socket] =
       IF \/ reason # "io server disconnect"
          \/ HasListener("disconnect", "onDisconnect")
         THEN "reconnecting" ELSE "disconnected"]
  /\ UNCHANGED <<socket, sockDeviceId, reconnectAttempts, listeners, sendBuffer,
                 subscribedAlerts>>
  /\ UNCHANGED notSockVars

\* socket.emit('subscribe_alert', ...): socket.io buffers what is emitted while
\* the socket is not connected.
EmitSubscribe(a) ==
  /\ IF SocketConnected
       THEN /\ serverRooms' = serverRooms \cup {AlertRoom(a)}
            /\ sendBuffer' = sendBuffer
       ELSE /\ serverRooms' = serverRooms
            /\ sendBuffer' = IF \E n \in 1..Len(sendBuffer) : sendBuffer[n] = AlertRoom(a)
                               THEN sendBuffer ELSE Append(sendBuffer, AlertRoom(a))
  /\ subscribedAlerts' = subscribedAlerts \cup {a}

\* subscribeToAlert(alertId)
SubscribeToAlert(a) ==
  /\ socket # NoSocket
  /\ EmitSubscribe(a)
  /\ UNCHANGED <<socket, sockDeviceId, reconnectAttempts, sockState, listeners>>
  /\ UNCHANGED notSockVars

\* removeListener(event)
RemoveListener(ev) ==
  /\ socket # NoSocket
  /\ listeners' = SelectSeq(listeners, LAMBDA l : l.ev # ev)
  /\ UNCHANGED <<socket, sockDeviceId, reconnectAttempts, sockState, sendBuffer,
                 serverRooms, subscribedAlerts>>
  /\ UNCHANGED notSockVars

\* The listeners after removeAllListeners(): every listener goes, then a
\* 'connect' listener that calls joinDeviceRoom is added again.
ListenersAfterRemoveAll ==
  IF socket # NoSocket THEN << Listener("connect", "rejoin") >> ELSE listeners

\* removeAllListeners()
RemoveAllListeners ==
  /\ socket # NoSocket
  /\ listeners' = ListenersAfterRemoveAll
  /\ UNCHANGED <<socket, sockDeviceId, reconnectAttempts, sockState, sendBuffer,
                 serverRooms, subscribedAlerts>>
  /\ UNCHANGED notSockVars

\* No fetch under way.
NoFetch == [pc |-> "idle", kind |-> "none",
            cap |-> [my |-> NoAlert, incoming |-> NoAlert],
            alerts |-> <<>>, late |-> {}]

\* ------------------------------------------------------------ home screen
\* Every handler below runs to completion together with the re-render it causes:
\* an effect whose dependencies changed is cleaned up and run again before the
\* next event, a closure of an effect whose dependencies did not change keeps
\* the values it captured.

HomeInit ==
  /\ deviceId = NoDevice
  /\ pushToken = 0
  /\ hasPermission = FALSE
  /\ isConnected = FALSE
  /\ myActiveAlert = NoAlert
  /\ canTrigger = TRUE
  /\ cooldownRemaining = 0
  /\ nearbyAlerts = <<>>
  /\ incomingAlert = NoAlert
  /\ isProcessing = FALSE
  /\ alertAge = NotStarted
  /\ timersDue = {}
  /\ presses = [i \in PressIds |-> "idle"]
  /\ setups = [r \in SetupIds |-> [pc |-> "unused", cap |-> NoCapture]]
  /\ activeFor = 0
  /\ endedOwn = FALSE
  /\ fetchSeen = NoAlert
  /\ fetches = [i \in FetchIds |-> NoFetch]
  /\ dismissed = NoAlert

\* The periodic-update effect depends on deviceId, hasPermission, myActiveAlert
\* and currentAddress, not on incomingAlert: when it runs again (`rerun`), the
\* updateAndFetchData it creates sees the incomingAlert of that render.
FetchSeenAfter(rerun, incoming) == IF rerun THEN incoming ELSE fetchSeen

\* The values of the render a closure is created in.
CurrentCapture ==
  [my |-> myActiveAlert, incoming |-> incomingAlert, nearby |-> nearbyAlerts]

\* No interval callback is due: the callbacks run at the end of the second,
\* before any other event.
Settled == timersDue = {}

\* activeFor after a handler that leaves myActiveAlert as `my`.
ActiveForAfter(my) == IF my = NoAlert \/ myActiveAlert = NoAlert THEN 0 ELSE activeFor

\* stopWatching(): the subscription in the ref, if any, is removed.
StopWatching(w) ==
  IF w.ref # NoWatch
    THEN [ref |-> NoWatch, subs |-> [w.subs EXCEPT ![w.ref] = "unused"]]
    ELSE w

\* A watch can be started: the platform has room for one more.
CanStartWatching(w) == \E i \in WatchIds : w.subs[i] = "unused"

\* startWatching up to `await Location.watchPositionAsync(...)`.
StartWatching(w) ==
  LET i == CHOOSE i \in WatchIds :
             /\ w.subs[i] = "unused"
             /\ \A j \in WatchIds : j < i => w.subs[j] # "unused"
  IN  [w EXCEPT !.subs[i] = "pending"]

\* The alert view's location effect is cleaned up and runs again (a
\* dependency changed while alertDetails is set and the alert is not the
\* device's own).
RestartWatching(w) == StartWatching(StopWatching(w))

\* The alert view unmounts: the location effect's cleanup and the cleanup of
\* useLocation call stopWatching; the ref goes with the component, and what
\* is still awaited belongs to no mounted view.
UnmountWatching(w) ==
  LET u == StopWatching(w)
  IN  [u EXCEPT !.subs = [i \in WatchIds |->
                            IF u.subs[i] = "pending" THEN "orphan" ELSE u.subs[i]]]

\* The alert view is of an alert of another device.
NotMyAlert == myActiveAlert # alertView.alertId

\* The watches after a handler of the home screen that leaves myActiveAlert
\* as `my`: isMyAlert is a dependency of the alert view's location effect.
WatchAfter(my) ==
  IF alertView.alertId = NoAlert \/ alertView.alertDetails = NoDetails THEN watch
  ELSE IF NotMyAlert /\ my = alertView.alertId THEN StopWatching(watch)
  ELSE IF ~NotMyAlert /\ my # alertView.alertId THEN StartWatching(watch)
  ELSE watch

\* WatchAfter(my) can be taken: a watch that has to start can.
CanWatchAfter(my) ==
  (/\ alertView.alertId # NoAlert
   /\ alertView.alertDetails # NoDetails
   /\ ~NotMyAlert
   /\ my # alertView.alertId) => CanStartWatching(watch)

\* The closure of updateAndFetchData and the history variables of the own
\* alert after a handler, other than the delivery of an alert_ended, that
\* leaves myActiveAlert as `my`.
TrackClosure(my) ==
  /\ activeFor' = ActiveForAfter(my)
  /\ endedOwn' = FALSE
  /\ fetchSeen' = FetchSeenAfter(my # myActiveAlert, incomingAlert)
  /\ CanWatchAfter(my)
  /\ watch' = WatchAfter(my)
  /\ UNCHANGED <<fetches, alertView, calc>>

\* The same after a handler that is neither a dismissal nor the delivery of an
\* alert_received.
Track(my) == TrackClosure(my) /\ UNCHANGED dismissed

\* The same after a handler that changes deviceId or hasPermission.
TrackDeps ==
  /\ activeFor' = ActiveForAfter(myActiveAlert)
  /\ endedOwn' = FALSE
  /\ fetchSeen' = FetchSeenAfter(TRUE, incomingAlert)
  /\ UNCHANGED <<fetches, dismissed, viewVars>>

\* The interval callbacks still due after a handler that leaves the cooldown as
\* `cool`, the alert as `my` and the start time as `age`: an interval whose
\* effect ran again, or returned early, is cleared.
DueAfter(cool, my, age) ==
  {t \in timersDue :
     \/ t = "cooldown" /\ cool = cooldownRemaining /\ cool > 0
     \/ t = "alert" /\ my = myActiveAlert /\ age = alertAge
                    /\ my # NoAlert /\ age # NotStarted}

\* The first run of setupDevice that has not begun.
NextSetup(r) ==
  /\ setups[r].pc = "unused"
  /\ \A q \in SetupIds : q < r => setups[q].pc # "unused"

\* loadDeviceId() has set the store's deviceId: the home screen's setup effect
\* runs (setupDevice begins with registerDevice), and the root layout's effect
\* connects the socket.
DeviceIdLoaded ==
  /\ deviceId = NoDevice
  /\ Settled
  /\ deviceId' = ThisDevice
  /\ \E r \in SetupIds :
       /\ NextSetup(r)
       /\ setups' = [setups EXCEPT ![r] = [pc |-> "awaitRegister",
                                           cap |-> CurrentCapture]]
  /\ DoConnect(ThisDevice)
  /\ TrackDeps
  /\ UNCHANGED <<pushToken, hasPermission, isConnected, myActiveAlert, canTrigger,
                 cooldownRemaining, nearbyAlerts, incomingAlert, isProcessing,
                 alertAge, timersDue, presses>>
  /\ UNCHANGED soundVars

\* requestForegroundPermissionsAsync() resolved 'granted'.
PermissionGranted ==
  /\ ~hasPermission
  /\ Settled
  /\ hasPermission' = TRUE
  /\ TrackDeps
  /\ UNCHANGED <<deviceId, pushToken, isConnected, myActiveAlert, canTrigger,
                 cooldownRemaining, nearbyAlerts, incomingAlert, isProcessing,
                 alertAge, timersDue, presses, setups>>
  /\ UNCHANGED <<soundVars, sockVars>>

\* expoPushToken changes: the setup effect is cleaned up (removeAllListeners)
\* and runs again, with closures over the current render. Without a deviceId
\* the effect returns at once and has no cleanup.
PushTokenChanged ==
  /\ pushToken < TokenChanges
  /\ Settled
  /\ pushToken' = pushToken + 1
  /\ IF deviceId = NoDevice
       THEN UNCHANGED <<setups, listeners>>
       ELSE /\ listeners' = ListenersAfterRemoveAll
            /\ \E r \in SetupIds :
                 /\ NextSetup(r)
                 /\ setups' = [setups EXCEPT ![r] = [pc |-> "awaitRegister",
                                                     cap |-> CurrentCapture]]
  /\ Track(myActiveAlert)
  /\ UNCHANGED <<deviceId, hasPermission, isConnected, myActiveAlert, canTrigger,
                 cooldownRemaining, nearbyAlerts, incomingAlert, isProcessing,
                 alertAge, timersDue, presses>>
  /\ UNCHANGED <<socket, sockDeviceId, reconnectAttempts, sockState, sendBuffer,
                 serverRooms, subscribedAlerts>>
  /\ UNCHANGED soundVars

\* The three listeners setupDevice adds, closing over the render of its run.
HomeListeners(cap) ==
  << [ev |-> "alert_received", fn |-> "homeAlertReceived", cap |-> cap],
     [ev |-> "alert_ended", fn |-> "homeAlertEnded", cap |-> cap],
     [ev |-> "responder_added", fn |-> "homeResponderAdded", cap |-> cap] >>

\* registerDevice resolved in run r of setupDevice: connect, setIsConnected(true),
\* add the listeners, call getDeviceStatus.
RegisterResolved(r) ==
  /\ setups[r].pc = "awaitRegister"
  /\ Settled
  /\ ConnectSocket(deviceId)
  /\ listeners' = ListenersAfterConnect(deviceId) \o HomeListeners(setups[r].cap)
  /\ isConnected' = TRUE
  /\ setups' = [setups EXCEPT ![r].pc = "awaitStatus"]
  /\ Track(myActiveAlert)
  /\ UNCHANGED <<deviceId, pushToken, hasPermission, myActiveAlert, canTrigger,
                 cooldownRemaining, nearbyAlerts, incomingAlert, isProcessing,
                 alertAge, timersDue, presses>>
  /\ UNCHANGED soundVars

\* registerDevice or getDeviceStatus rejected in run r: the catch block.
SetupFailed(r) ==
  /\ setups[r].pc \in {"awaitRegister", "awaitStatus"}
  /\ Settled
  /\ isConnected' = FALSE
  /\ setups' = [setups EXCEPT ![r].pc = "failed"]
  /\ Track(myActiveAlert)
  /\ UNCHANGED <<deviceId, pushToken, hasPermission, myActiveAlert, canTrigger,
                 cooldownRemaining, nearbyAlerts, incomingAlert, isProcessing,
                 alertAge, timersDue, presses>>
  /\ UNCHANGED <<soundVars, sockVars>>

\* The cooldown_remaining values a status reply carries.
StatusCooldowns == {0, 2}

\* The replies of getDeviceStatus: the server lets a device trigger only when
\* its cooldown is over.
StatusReplies ==
  {s \in [can : BOOLEAN, cooldown : StatusCooldowns, active : {NoAlert} \cup AlertIds] :
     s.cooldown > 0 => ~s.can}

\* getDeviceStatus resolved in run r with `status`.
StatusResolved(r, status) ==
  /\ setups[r].pc = "awaitStatus"
  /\ Settled
  /\ canTrigger' = status.can
  /\ cooldownRemaining' = status.cooldown
  /\ myActiveAlert' = IF status.active # NoAlert THEN status.active ELSE myActiveAlert
  /\ timersDue' = DueAfter(cooldownRemaining', myActiveAlert', alertAge)
  /\ setups' = [setups EXCEPT ![r].pc = "done"]
  /\ Track(myActiveAlert')
  /\ UNCHANGED <<deviceId, pushToken, hasPermission, isConnected, nearbyAlerts,
                 incomingAlert, isProcessing, alertAge, presses>>
  /\ UNCHANGED <<soundVars, sockVars>>

\* The guards without `if (isProcessing) return` (faulty variant of PressAccepted).
PressAccepted_NoProcessingGate ==
  /\ myActiveAlert = NoAlert
  /\ hasPermission
  /\ canTrigger

\* The guards of handleEmergencyPress.
PressAccepted ==
  /\ ~isProcessing
  /\ myActiveAlert = NoAlert
  /\ hasPermission
  /\ canTrigger

\* The trigger requests sent and not yet answered.
InFlight == {i \in PressIds : presses[i] = "awaitTrigger"}

\* handleEmergencyPress, up to `await getCurrentLocation()`; i is the invocation.
\* A press that fails a guard returns (with an alert box at most); one that
\* passes them vibrates.
Press(i) ==
  /\ presses[i] = "idle"
  /\ \A j \in PressIds : j < i => presses[j] # "idle"
  /\ Settled
  /\ IF PressAccepted
       THEN /\ isProcessing' = TRUE
            /\ vibrating' = TRUE
            /\ presses' = [presses EXCEPT ![i] = "awaitLocation"]
            /\ Track(myActiveAlert)
       ELSE /\ UNCHANGED <<isProcessing, vibrating, presses>>
            /\ Track(myActiveAlert)
  /\ UNCHANGED <<deviceId, pushToken, hasPermission, isConnected, myActiveAlert,
                 canTrigger, cooldownRemaining, nearbyAlerts, incomingAlert,
                 alertAge, timersDue, setups>>
  /\ UNCHANGED <<soundState, sockVars>>

\* getCurrentLocation() and getAddressFromCoords() resolved in invocation i:
\* with a location, triggerAlert is called; with null (or an exception)
\* isProcessing is cleared and the invocation ends.
LocationDone(i, ok) ==
  /\ presses[i] = "awaitLocation"
  /\ Settled
  /\ IF ok
       THEN /\ presses' = [presses EXCEPT ![i] = "awaitTrigger"]
            /\ UNCHANGED isProcessing
            /\ Track(myActiveAlert)
       ELSE /\ presses' = [presses EXCEPT ![i] = "idle"]
            /\ isProcessing' = FALSE
            /\ Track(myActiveAlert)
  /\ UNCHANGED <<deviceId, pushToken, hasPermission, isConnected, myActiveAlert,
                 canTrigger, cooldownRemaining, nearbyAlerts, incomingAlert,
                 alertAge, timersDue, setups>>
  /\ UNCHANGED <<soundVars, sockVars>>

\* triggerAlert resolved with alert_id a in invocation i.
TriggerResolved(i, a) ==
  /\ presses[i] = "awaitTrigger"
  /\ Settled
  /\ myActiveAlert' = a
  /\ alertAge' = 0
  /\ canTrigger' = FALSE
  /\ cooldownRemaining' = TRIGGER_COOLDOWN
  /\ isProcessing' = FALSE
  /\ presses' = [presses EXCEPT ![i] = "idle"]
  /\ timersDue' = DueAfter(cooldownRemaining', a, 0)
  /\ vibrating' = TRUE
  /\ Track(a)
  /\ UNCHANGED <<deviceId, pushToken, hasPermission, isConnected, nearbyAlerts,
                 incomingAlert, setups>>
  /\ UNCHANGED <<soundState, sockVars>>

\* A catch without the finally block: isProcessing is not cleared.
TriggerRejected_NoFinally(i) ==
  /\ presses[i] = "awaitTrigger"
  /\ Settled
  /\ presses' = [presses EXCEPT ![i] = "idle"]
  /\ Track(myActiveAlert)
  /\ UNCHANGED <<deviceId, pushToken, hasPermission, isConnected, myActiveAlert,
                 canTrigger, cooldownRemaining, nearbyAlerts, incomingAlert,
                 isProcessing, alertAge, timersDue, setups>>
  /\ UNCHANGED <<soundVars, sockVars>>

\* triggerAlert rejected in invocation i: catch, then finally.
TriggerRejected(i) ==
  /\ presses[i] = "awaitTrigger"
  /\ Settled
  /\ isProcessing' = FALSE
  /\ presses' = [presses EXCEPT ![i] = "idle"]
  /\ Track(myActiveAlert)
  /\ UNCHANGED <<deviceId, pushToken, hasPermission, isConnected, myActiveAlert,
                 canTrigger, cooldownRemaining, nearbyAlerts, incomingAlert,
                 alertAge, timersDue, setups>>
  /\ UNCHANGED <<soundVars, sockVars>>

\* fetch f once alert_ended for a has been delivered: a reply on its way that
\* lists a was made before the alert ended.
EndedSince(f, a) ==
  IF f.pc = "inFlight" /\ (\E k \in 1..Len(f.alerts) : f.alerts[k] = a)
    THEN [f EXCEPT !.late = @ \cup {a}]
    ELSE f

\* The part of the screen's state the socket listeners write.
HomeState ==
  [my |-> myActiveAlert, can |-> canTrigger, cool |-> cooldownRemaining,
   nearby |-> nearbyAlerts, incoming |-> incomingAlert]

\* The store's reset(), as far as HomeState goes.
Reset(hs) == [hs EXCEPT !.my = NoAlert, !.nearby = <<>>, !.can = TRUE, !.cool = 0]

\* nearbyAlerts.filter(a => a.alert_id !== id)
WithoutAlert(alerts, a) == SelectSeq(alerts, LAMBDA x : x # a)

\* The alert_ended handler of setupDevice, with the closure l.cap, on alert_id a.
OnAlertEnded(l, a, hs) ==
  LET h1 == IF l.cap.my = a THEN Reset([hs EXCEPT !.my = NoAlert]) ELSE hs
      h2 == IF l.cap.incoming = a THEN [h1 EXCEPT !.incoming = NoAlert] ELSE h1
  IN  [h2 EXCEPT !.nearby = WithoutAlert(l.cap.nearby, a)]

\* The alert_received handler of setupDevice: setIncomingAlert.
OnAlertReceived(l, a, hs) == [hs EXCEPT !.incoming = a]

\* The socket emits event ev with alert_id a: its listeners run in the order
\* they were added.
RECURSIVE Dispatch(_, _, _, _)
Dispatch(ls, ev, a, hs) ==
  IF ls = <<>> THEN hs
  ELSE LET l == Head(ls)
           h == IF l.ev # ev THEN hs
                ELSE IF l.fn = "homeAlertEnded" THEN OnAlertEnded(l, a, hs)
                ELSE IF l.fn = "homeAlertReceived" THEN OnAlertReceived(l, a, hs)
                ELSE hs
       IN  Dispatch(Tail(ls), ev, a, h)

\* The screen's state becomes hs.
SetHomeState(hs) ==
  /\ myActiveAlert' = hs.my
  /\ canTrigger' = hs.can
  /\ cooldownRemaining' = hs.cool
  /\ nearbyAlerts' = hs.nearby
  /\ incomingAlert' = hs.incoming
  /\ timersDue' = DueAfter(hs.cool, hs.my, alertAge)

\* The server's alert_ended for alert a reaches the socket while the home
\* screen's handler is registered.
AlertEndedDelivered(a) ==
  /\ SocketConnected
  /\ HasListener("alert_ended", "homeAlertEnded")
  /\ Settled
  /\ SetHomeState(Dispatch(listeners, "alert_ended", a, HomeState))
  /\ activeFor' = ActiveForAfter(myActiveAlert')
  /\ endedOwn' = (a = myActiveAlert)
  /\ fetchSeen' = FetchSeenAfter(myActiveAlert' # myActiveAlert, incomingAlert')
  /\ fetches' = [i \in FetchIds |-> EndedSince(fetches[i], a)]
  /\ CanWatchAfter(myActiveAlert')
  /\ watch' = WatchAfter(myActiveAlert')
  /\ UNCHANGED <<dismissed, alertView, calc>>
  /\ UNCHANGED <<deviceId, pushToken, hasPermission, isConnected, isProcessing,
                 alertAge, presses, setups>>
  /\ UNCHANGED <<soundVars, sockVars>>

\* The server's alert_received for alert a reaches the socket while the home
\* screen's handler is registered: the service's wrapper plays the burst, then
\* the handler runs, unless playAlertBurst threw. `throws`: Vibration.vibrate
\* throws.
DeliverAlertReceived(a, throws) ==
  /\ SocketConnected
  /\ HasListener("alert_received", "homeAlertReceived")
  /\ Settled
  /\ Burst(throws)
  /\ SetHomeState(IF BurstReturns(throws)
                    THEN Dispatch(listeners, "alert_received", a, HomeState)
                    ELSE HomeState)
  /\ TrackClosure(myActiveAlert')
  /\ dismissed' = IF BurstReturns(throws) THEN NoAlert ELSE dismissed
  /\ UNCHANGED <<deviceId, pushToken, hasPermission, isConnected, isProcessing,
                 alertAge, presses, setups>>
  /\ UNCHANGED sockVars

\* The same on a device whose vibrator works.
AlertReceivedDelivered(a) == DeliverAlertReceived(a, FALSE)

\* handleDismissAlert
DismissAlert ==
  /\ incomingAlert # NoAlert
  /\ Settled
  /\ incomingAlert' = NoAlert
  /\ TrackClosure(myActiveAlert)
  /\ dismissed' = incomingAlert
  /\ UNCHANGED <<deviceId, pushToken, hasPermission, isConnected, myActiveAlert,
                 canTrigger, cooldownRemaining, nearbyAlerts, isProcessing,
                 alertAge, timersDue, presses, setups>>
  /\ UNCHANGED <<soundVars, sockVars>>

\* The `alerts` of a getNearbyAlerts reply: the listed alerts, nearest first.
FetchReplies ==
  {r \in UNION {[1..n -> AlertIds] : n \in 0..Cardinality(AlertIds)} :
     \A j, k \in 1..Len(r) : j # k => r[j] # r[k]}

\* The screens that call getNearbyAlerts: the home screen's updateAndFetchData,
\* and the fetchNearbyAlerts of the map and alerts screens.
FetchKinds == {"home", "list"}

\* getNearbyAlerts is called in fetch i, and the server makes the reply
\* `alerts`. On the home screen the call is in updateAndFetchData, run by the
\* periodic-update effect (at once and every 10 s) while there are a deviceId
\* and the location permission.
FetchStart(i, kind, alerts) ==
  /\ fetches[i] = NoFetch
  /\ \A j \in FetchIds : j < i => fetches[j] # NoFetch
  /\ Settled
  /\ deviceId # NoDevice
  /\ kind = "home" => hasPermission
  /\ fetches' = [fetches EXCEPT ![i] =
                   [pc |-> "inFlight", kind |-> kind,
                    cap |-> [my |-> myActiveAlert, incoming |-> fetchSeen],
                    alerts |-> alerts, late |-> {}]]
  /\ UNCHANGED <<fetchSeen, dismissed, homeVars, soundVars, sockVars, viewVars>>

\* The incoming alert after updateAndFetchData got `alerts`: the nearest one is
\* surfaced if the closure saw neither an active nor an incoming alert.
SurfaceNearest(f, incoming) ==
  IF Len(f.alerts) > 0 /\ f.cap.my = NoAlert /\ f.cap.incoming = NoAlert
    THEN f.alerts[1] ELSE incoming

\* getNearbyAlerts resolved in fetch i: setNearbyAlerts, and on the home screen
\* the nearest alert may be surfaced.
FetchDone(i) ==
  /\ fetches[i].pc = "inFlight"
  /\ Settled
  /\ nearbyAlerts' = fetches[i].alerts
  /\ incomingAlert' = IF fetches[i].kind = "home"
                        THEN SurfaceNearest(fetches[i], incomingAlert)
                        ELSE incomingAlert
  /\ fetches' = [fetches EXCEPT ![i] = NoFetch]
  /\ endedOwn' = FALSE
  /\ UNCHANGED <<fetchSeen, dismissed, activeFor, viewVars>>
  /\ UNCHANGED <<deviceId, pushToken, hasPermission, isConnected, myActiveAlert,
                 canTrigger, cooldownRemaining, isProcessing, alertAge, timersDue,
                 presses, setups>>
  /\ UNCHANGED <<soundVars, sockVars>>

\* getNearbyAlerts rejected in fetch i: the catch block logs the error.
FetchFailed(i) ==
  /\ fetches[i].pc = "inFlight"
  /\ Settled
  /\ fetches' = [fetches EXCEPT ![i] = NoFetch]
  /\ UNCHANGED <<fetchSeen, dismissed, homeVars, soundVars, sockVars, viewVars>>

\* setCurrentAddress with another address than before (the device moved): the
\* periodic-update effect is cleaned up and runs again.
AddressChanged ==
  /\ deviceId # NoDevice
  /\ hasPermission
  /\ Settled
  /\ fetchSeen' = FetchSeenAfter(TRUE, incomingAlert)
  /\ UNCHANGED <<fetches, dismissed, homeVars, soundVars, sockVars, viewVars>>

\* The listeners the alert view's socket effect adds.
ViewListeners ==
  << Listener("alert_location_updated", "viewLocationUpdated"),
     Listener("alert_ended", "viewAlertEnded"),
     Listener("responder_added", "viewResponderAdded") >>

\* The alert view screen is opened for alert a: fetchDetails calls
\* getAlertDetails, and the socket effect subscribes to the alert and adds
\* its listeners (on a socket, if there is one).
OpenAlertView(a) ==
  /\ alertView.alertId = NoAlert
  /\ alertView' = [alertId |-> a, alertDetails |-> NoDetails]
  /\ IF socket # NoSocket
       THEN /\ EmitSubscribe(a)
            /\ listeners' = listeners \o ViewListeners
       ELSE UNCHANGED <<listeners, sendBuffer, serverRooms, subscribedAlerts>>
  /\ UNCHANGED <<socket, sockDeviceId, reconnectAttempts, sockState>>
  /\ UNCHANGED <<calc, watch, soundVars, homeVars, inboxVars>>

\* getAlertDetails resolved with details whose responder_count is c: with
\* alertDetails set, the location effect starts to watch.
DetailsResolved(c) ==
  /\ alertView.alertId # NoAlert
  /\ alertView.alertDetails = NoDetails
  /\ alertView' = [alertView EXCEPT !.alertDetails = c]
  /\ IF NotMyAlert
       THEN CanStartWatching(watch) /\ watch' = StartWatching(watch)
       ELSE UNCHANGED watch
  /\ UNCHANGED <<calc, soundVars, sockVars, homeVars, inboxVars>>

\* data.responder_count || 0
CountOrZero(c) == IF c = NoCount THEN 0 ELSE c

\* The responder_added handler of the alert view on {alert_id: a,
\* responder_count: c}: setAlertDetails(prev => prev ? {...} : prev).
OnViewResponderAdded(v, a, c) ==
  IF a = v.alertId /\ v.alertDetails # NoDetails
    THEN [v EXCEPT !.alertDetails = CountOrZero(c)]
    ELSE v

\* The server's responder_added for alert a reaches the socket while the alert
\* view's handler is registered.
ResponderAddedDelivered(a, c) ==
  /\ SocketConnected
  /\ HasListener("responder_added", "viewResponderAdded")
  /\ alertView' = OnViewResponderAdded(alertView, a, c)
  /\ IF a = alertView.alertId /\ alertView.alertDetails # NoDetails /\ NotMyAlert
       THEN /\ CanStartWatching(StopWatching(watch))
            /\ watch' = RestartWatching(watch)
       ELSE UNCHANGED watch
  /\ UNCHANGED <<calc, soundVars, sockVars, homeVars, inboxVars>>

\* Location.watchPositionAsync of watch i resolved: the subscription is
\* active and, in a mounted view, is stored in the ref.
WatchResolved(i) ==
  /\ watch.subs[i] \in {"pending", "orphan"}
  /\ watch' = [ref |-> IF watch.subs[i] = "pending" THEN i ELSE watch.ref,
               subs |-> [watch.subs EXCEPT ![i] = "active"]]
  /\ UNCHANGED <<alertView, calc, soundVars, sockVars, homeVars, inboxVars>>

\* Location.watchPositionAsync of watch i rejected: startWatching returns null.
WatchRejected(i) ==
  /\ watch.subs[i] \in {"pending", "orphan"}
  /\ watch' = [watch EXCEPT !.subs[i] = "unused"]
  /\ UNCHANGED <<alertView, calc, soundVars, sockVars, homeVars, inboxVars>>

\* The alert view screen is closed: the socket effect's cleanup calls
\* removeAllListeners, the location effect's and useLocation's call
\* stopWatching.
CloseAlertView ==
  /\ alertView.alertId # NoAlert
  /\ alertView' = [alertId |-> NoAlert, alertDetails |-> NoDetails]
  /\ listeners' = ListenersAfterRemoveAll
  /\ watch' = UnmountWatching(watch)
  /\ UNCHANGED <<socket, sockDeviceId, reconnectAttempts, sockState, sendBuffer,
                 serverRooms, subscribedAlerts>>
  /\ UNCHANGED <<calc, soundVars, homeVars, inboxVars>>

\* currentLocation changes while the alert view is open: its socket effect is
\* cleaned up (removeAllListeners) and runs again (subscribeToAlert, then the
\* view's listeners).
ViewLocationChanged ==
  /\ alertView.alertId # NoAlert
  /\ IF socket # NoSocket
       THEN /\ EmitSubscribe(alertView.alertId)
            /\ listeners' = ListenersAfterRemoveAll \o ViewListeners
       ELSE UNCHANGED <<listeners, sendBuffer, serverRooms, subscribedAlerts>>
  /\ UNCHANGED <<socket, sockDeviceId, reconnectAttempts, sockState>>
  /\ UNCHANGED <<viewVars, soundVars, homeVars, inboxVars>>

Min(a, b) == IF a < b THEN a ELSE b
Max(a, b) == IF a > b THEN a ELSE b

\* The clocks that are running, and how far each is from the last
\* EventWindow seconds before its end (0 or less: it is near its end).
RunningClocks ==
  {c \in {"age", "active", "cooldown"} :
     \/ c = "age" /\ alertAge # NotStarted /\ alertAge < ALERT_DURATION
     \/ c = "active" /\ myActiveAlert # NoAlert /\ activeFor < ALERT_DURATION + 2
     \/ c = "cooldown" /\ cooldownRemaining > 0}

ToEndWindow(c) ==
  IF c = "age" THEN ALERT_DURATION - EventWindow - alertAge
  ELSE IF c = "active" THEN ALERT_DURATION - EventWindow - activeFor
  ELSE cooldownRemaining - EventWindow

SinceStart(c) ==
  IF c = "age" THEN alertAge
  ELSE IF c = "active" THEN activeFor
  ELSE TRIGGER_COOLDOWN - cooldownRemaining

\* Some clock runs, and every running clock is more than EventWindow seconds
\* from its start and from its end.
Quiet ==
  /\ Settled
  /\ RunningClocks # {}
  /\ \A c \in RunningClocks : SinceStart(c) >= EventWindow /\ ToEndWindow(c) > 0

\* The seconds until the first running clock comes near its end.
QuietFor ==
  CHOOSE k \in {ToEndWindow(c) : c \in RunningClocks} :
    \A c \in RunningClocks : k <= ToEndWindow(c)

\* A quiet stretch passes, QuietFor seconds without an event: each second the
\* cooldown callback takes one off cooldownRemaining, which stays above 1, and
\* the countdown callback finds time remaining and sets alertTimeRemaining only.
Wait ==
  /\ Quiet
  /\ alertAge' = IF "age" \in RunningClocks THEN alertAge + QuietFor ELSE alertAge
  /\ activeFor' = IF "active" \in RunningClocks THEN activeFor + QuietFor ELSE activeFor
  /\ cooldownRemaining' = IF "cooldown" \in RunningClocks
                             THEN cooldownRemaining - QuietFor ELSE cooldownRemaining
  /\ endedOwn' = FALSE
  /\ UNCHANGED <<inboxVars, viewVars>>
  /\ UNCHANGED <<deviceId, pushToken, hasPermission, isConnected, myActiveAlert,
                 canTrigger, nearbyAlerts, incomingAlert, isProcessing, timersDue,
                 presses, setups>>
  /\ UNCHANGED <<soundVars, sockVars>>

\* One second passes: the start time is a second older, and the intervals of
\* the cooldown effect and of the countdown effect, where they are set, are due.
Tick ==
  /\ Settled
  /\ ~Quiet
  /\ alertAge' = IF alertAge = NotStarted THEN NotStarted
                 ELSE Min(alertAge + 1, ALERT_DURATION)
  /\ activeFor' = IF myActiveAlert = NoAlert THEN 0
                  ELSE Min(activeFor + 1, ALERT_DURATION + 2)
  /\ timersDue' = {t \in {"cooldown", "alert"} :
                     \/ t = "cooldown" /\ cooldownRemaining > 0
                     \/ t = "alert" /\ myActiveAlert # NoAlert /\ alertAge # NotStarted}
  /\ endedOwn' = FALSE
  /\ UNCHANGED <<inboxVars, viewVars>>
  /\ UNCHANGED <<deviceId, pushToken, hasPermission, isConnected, myActiveAlert,
                 canTrigger, cooldownRemaining, nearbyAlerts, incomingAlert,
                 isProcessing, presses, setups>>
  /\ UNCHANGED <<soundVars, sockVars>>

\* A callback that leaves cooldownRemaining as it is (faulty variant of CooldownStep).
CooldownStep_Stuck(c) == c

\* What the cooldown interval's callback sets cooldownRemaining to.
CooldownStep(c) == Max(0, c - 1)

\* The callback of the cooldown effect's interval.
CooldownTimerFires ==
  /\ "cooldown" \in timersDue
  /\ cooldownRemaining' = CooldownStep(cooldownRemaining)
  /\ canTrigger' = IF cooldownRemaining <= 1 THEN TRUE ELSE canTrigger
  /\ timersDue' = timersDue \ {"cooldown"}
  /\ Track(myActiveAlert)
  /\ UNCHANGED <<deviceId, pushToken, hasPermission, isConnected, myActiveAlert,
                 nearbyAlerts, incomingAlert, isProcessing, alertAge, presses,
                 setups>>
  /\ UNCHANGED <<soundVars, sockVars>>

\* `Math.max(0, ALERT_DURATION - elapsed)`
Remaining(elapsed) == Max(0, ALERT_DURATION - elapsed)

\* The callback of the countdown effect's interval: at remaining 0 it clears
\* the alert and the start time and calls reset().
AlertTimerFires ==
  /\ "alert" \in timersDue
  /\ IF Remaining(alertAge) <= 0
       THEN /\ alertAge' = NotStarted
            /\ SetHomeState(Reset([HomeState EXCEPT !.my = NoAlert]))
            /\ Track(NoAlert)
       ELSE /\ timersDue' = timersDue \ {"alert"}
            /\ Track(myActiveAlert)
            /\ UNCHANGED <<myActiveAlert, canTrigger, cooldownRemaining,
                           nearbyAlerts, incomingAlert, alertAge>>
  /\ UNCHANGED <<deviceId, pushToken, hasPermission, isConnected, isProcessing,
                 presses, setups>>
  /\ UNCHANGED <<soundVars, sockVars>>

\* The alert view screen is closed, and no helper function is being applied.
ViewInit ==
  /\ alertView = [alertId |-> NoAlert, alertDetails |-> NoDetails]
  /\ watch = [ref |-> NoWatch, subs |-> [i \in WatchIds |-> "unused"]]
  /\ calc = [fn |-> "none"]

Init == SoundInit /\ SocketInit /\ HomeInit /\ ViewInit

NextSound ==
  \/ PlayAlertBurst
  \/ RootInitializeAudio
  \/ \E i \in CallIds, ok \in BOOLEAN : InitializeAudioDone(i, ok)
  \/ \E i \in CallIds : UnloadDone(i)
  \/ \E i \in CallIds : CreateResolved(i)
  \/ \E i \in CallIds : CreateRejected(i)
  \/ \E i \in CallIds : CleanupFires(i)
  \/ \E i \in CallIds : CleanupStopDone(i)
  \/ \E i \in CallIds : CleanupUnloadDone(i)
  \/ StopEmergencyAlert
  \/ VibrationEnds

SpecSound == Init /\ [][NextSound]_vars

NextSocket ==
  \/ \E d \in DeviceIds : Connect(d)
  \/ Disconnect
  \/ \E reconnectEvent \in BOOLEAN : TransportConnected(reconnectEvent)
  \/ TransportError
  \/ \E reason \in DisconnectReasons : Disconnected(reason)
  \/ \E a \in AlertIds : SubscribeToAlert(a)
  \/ \E ev \in SocketEvents : RemoveListener(ev)
  \/ RemoveAllListeners

SpecSocket == Init /\ [][NextSocket]_vars

NextHome ==
  \/ DeviceIdLoaded
  \/ PermissionGranted
  \/ PushTokenChanged
  \/ \E r \in SetupIds : RegisterResolved(r)
  \/ \E r \in SetupIds : SetupFailed(r)
  \/ \E r \in SetupIds : \E status \in StatusReplies : StatusResolved(r, status)
  \/ \E i \in PressIds : Press(i)
  \/ \E i \in PressIds : \E ok \in BOOLEAN : LocationDone(i, ok)
  \/ \E i \in PressIds : \E a \in AlertIds : TriggerResolved(i, a)
  \/ \E i \in PressIds : TriggerRejected(i)
  \/ \E a \in AlertIds : AlertEndedDelivered(a)
  \/ Tick
  \/ Wait
  \/ CooldownTimerFires
  \/ AlertTimerFires
  \/ \E reconnectEvent \in BOOLEAN : TransportConnected(reconnectEvent)

SpecHome == Init /\ [][NextHome]_vars

\* The home screen's inbox: alerts of other devices arrive over the socket and
\* through the nearby-alerts fetches, are dismissed, and end. The push token
\* does not change, so the setup effect runs once.
NextInbox ==
  \/ DeviceIdLoaded
  \/ PermissionGranted
  \/ \E r \in SetupIds : RegisterResolved(r)
  \/ \E r \in SetupIds : SetupFailed(r)
  \/ \E r \in SetupIds : \E status \in StatusReplies : StatusResolved(r, status)
  \/ \E reconnectEvent \in BOOLEAN : TransportConnected(reconnectEvent)
  \/ \E a \in AlertIds : AlertReceivedDelivered(a)
  \/ \E a \in AlertIds : AlertEndedDelivered(a)
  \/ DismissAlert
  \/ \E i \in FetchIds : \E kind \in FetchKinds : \E alerts \in FetchReplies :
       FetchStart(i, kind, alerts)
  \/ \E i \in FetchIds : FetchDone(i)
  \/ \E i \in FetchIds : FetchFailed(i)
  \/ AddressChanged

SpecInbox == Init /\ [][NextInbox]_vars

\* The home screen of a device whose alert is known to it from getDeviceStatus
\* only, while the socket delivers nothing: setupDevice runs once, and
\* updateAndFetchData runs every 10 s.
NextLost ==
  \/ DeviceIdLoaded
  \/ PermissionGranted
  \/ \E r \in SetupIds : RegisterResolved(r)
  \/ \E r \in SetupIds : SetupFailed(r)
  \/ \E r \in SetupIds : \E status \in StatusReplies : StatusResolved(r, status)
  \/ \E i \in FetchIds : \E kind \in FetchKinds : \E alerts \in FetchReplies :
       FetchStart(i, kind, alerts)
  \/ \E i \in FetchIds : FetchDone(i)
  \/ \E i \in FetchIds : FetchFailed(i)
  \/ AddressChanged

\* The interval of the periodic-update effect keeps calling updateAndFetchData,
\* and the server answers again and again (requests may fail in between).
FairSpecLost ==
  /\ Init
  /\ [][NextLost]_vars
  /\ WF_vars(\E i \in FetchIds : \E kind \in FetchKinds : \E alerts \in FetchReplies :
               FetchStart(i, kind, alerts))
  /\ SF_vars(\E i \in FetchIds : FetchDone(i))

\* ------------------------------------------------------------ helper functions

\* Math.floor(num / den) for den > 0.
Floor(num, den) == num \div den

\* Math.round of num / den without the half added (faulty variant of MathRound).
MathRound_Truncating(num, den) == Floor(num, den)

\* Math.round(num / den) for den > 0: floor(x + 0.5), a half goes up.
MathRound(num, den) == Floor(2 * num + den, 2 * den)

Directions == <<"N", "NE", "E", "SE", "S", "SW", "W", "NW">>

\* index % 8 in JavaScript: the result has the sign of index.
JsMod8(index) == IF index >= 0 THEN index % 8 ELSE 0 - ((0 - index) % 8)

\* directions[index]: undefined outside the array.
DirectionAt(index) ==
  IF index \in 0..(Len(Directions) - 1) THEN Directions[index + 1] ELSE "undefined"

\* getDirectionText(bearing) of the alert view, for a bearing of h half degrees:
\* (bearing || 0) / 45 is h / 90.
getDirectionText(h) ==
  LET bearingOrZero == IF h = 0 THEN 0 ELSE h
      index == JsMod8(MathRound(bearingOrZero, 90))
  IN  DirectionAt(index)

\* getDirectionText(bearing) of AlertCard.
CardGetDirectionText(h) ==
  LET index == JsMod8(MathRound(h, 90))
  IN  DirectionAt(index)

\* Both copies of getDirectionText are applied to a bearing.
DirectionInit ==
  /\ SoundInit /\ SocketInit /\ HomeInit
  /\ alertView = [alertId |-> NoAlert, alertDetails |-> NoDetails]
  /\ watch = [ref |-> NoWatch, subs |-> [i \in WatchIds |-> "unused"]]
  /\ calc \in {[fn |-> "getDirectionText", done |-> FALSE, bearing |-> h,
                 text |-> "", card |-> ""] : h \in HalfDegrees}

ApplyGetDirectionText ==
  /\ calc.fn = "getDirectionText"
  /\ ~calc.done
  /\ calc' = [calc EXCEPT !.done = TRUE,
                          !.text = getDirectionText(calc.bearing),
                          !.card = CardGetDirectionText(calc.bearing)]
  /\ UNCHANGED <<alertView, watch, soundVars, sockVars, homeVars, inboxVars>>

NextDirection == ApplyGetDirectionText

SpecDirection == DirectionInit /\ [][NextDirection]_vars

\* ------------------------------------------------------------ the store
\* The values of the store's fields: null is NoDevice, NoAlert or "null".
Stores ==
  [deviceId : {NoDevice} \cup {ThisDevice},
   pushToken : {"null", "token"},
   isRegistered : BOOLEAN,
   myActiveAlert : {NoAlert, 1},
   nearbyAlerts : {<<>>, <<2>>, <<1, 2>>},
   selectedAlert : {NoAlert, 2},
   canTrigger : BOOLEAN,
   cooldownRemaining : {0, TRIGGER_COOLDOWN},
   currentLocation : {"null", "here"},
   isLoading : BOOLEAN,
   error : {"null", "Failed to get current location"},
   isConnected : BOOLEAN]

\* The store as created.
InitialStore ==
  [deviceId |-> NoDevice, pushToken |-> "null", isRegistered |-> FALSE,
   myActiveAlert |-> NoAlert, nearbyAlerts |-> <<>>, selectedAlert |-> NoAlert,
   canTrigger |-> TRUE, cooldownRemaining |-> 0, currentLocation |-> "null",
   isLoading |-> FALSE, error |-> "null", isConnected |-> FALSE]

\* set(partial): the fields of `partial` replace those of the state.
StoreSet(st, partial) ==
  [f \in DOMAIN st |-> IF f \in DOMAIN partial THEN partial[f] ELSE st[f]]

\* A reset() that also forgets the location.
ResetFields_WithLocation ==
  [myActiveAlert |-> NoAlert, nearbyAlerts |-> <<>>, selectedAlert |-> NoAlert,
   canTrigger |-> TRUE, cooldownRemaining |-> 0, error |-> "null",
   currentLocation |-> "null"]

\* The object reset() passes to set.
ResetFields ==
  [myActiveAlert |-> NoAlert, nearbyAlerts |-> <<>>, selectedAlert |-> NoAlert,
   canTrigger |-> TRUE, cooldownRemaining |-> 0, error |-> "null"]

\* reset()
StoreReset(st) == StoreSet(st, ResetFields)

\* reset() is applied to a store.
StoreInit ==
  /\ SoundInit /\ SocketInit /\ HomeInit
  /\ alertView = [alertId |-> NoAlert, alertDetails |-> NoDetails]
  /\ watch = [ref |-> NoWatch, subs |-> [i \in WatchIds |-> "unused"]]
  /\ calc \in {[fn |-> "reset", applied |-> 0, before |-> st, store |-> st,
                 once |-> st] : st \in Stores}

ApplyReset ==
  /\ calc.fn = "reset"
  /\ calc.applied < MaxResets
  /\ calc' = [calc EXCEPT !.applied = calc.applied + 1,
                          !.store = StoreReset(calc.store),
                          !.once = IF calc.applied = 0 THEN StoreReset(calc.store)
                                                       ELSE calc.once]
  /\ UNCHANGED <<alertView, watch, soundVars, sockVars, homeVars, inboxVars>>

NextStore == ApplyReset

SpecStore == StoreInit /\ [][NextStore]_vars

Abs(x) == IF x < 0 THEN 0 - x ELSE x

\* x * y in fixed point, rounded to the nearest: as in floating point, the
\* rounding does not depend on the sign.
Mul(x, y) ==
  LET p == x * y
      m == (Abs(p) + (Scale \div 2)) \div Scale
  IN  IF p < 0 THEN 0 - m ELSE m

\* Math.sin of 0, 15, ..., 90 degrees, in fixed point.
SinTable == <<0, 2588, 5000, 7071, 8660, 9659, 10000>>

\* Math.sin of d degrees, d a multiple of 15: an odd function.
Sin(d) ==
  LET m == Abs(d) % 360
      v == IF m <= 90 THEN SinTable[(m \div 15) + 1]
           ELSE IF m <= 180 THEN SinTable[((180 - m) \div 15) + 1]
           ELSE IF m <= 270 THEN 0 - SinTable[((m - 180) \div 15) + 1]
           ELSE 0 - SinTable[((360 - m) \div 15) + 1]
  IN  IF d < 0 THEN 0 - v ELSE v

\* Math.cos of d degrees, d a multiple of 15.
Cos(d) == Sin(90 - Abs(d))

\* Math.sqrt of x (x >= 0), in fixed point.
Sqrt(x) ==
  CHOOSE r \in 0..(2 * Scale) : r * r <= x * Scale /\ (r + 1) * (r + 1) > x * Scale

\* Math.atan2(y, x) for y >= 0 and x >= 0, in minutes of arc: the angle of the
\* vector (x, y), found between two neighbours of the table and interpolated.
Atan2(y, x) ==
  LET Side(k) == Mul(y, Cos(15 * k)) - Mul(x, Sin(15 * k))
      k == CHOOSE j \in 0..6 : Side(j) >= 0 /\ (j = 6 \/ Side(j + 1) < 0)
  IN  IF k = 6 THEN 5400
      ELSE (900 * k) + ((900 * Side(k)) \div (Side(k) - Side(k + 1)))

\* A guard that looks at the first point only (faulty variant of
\* MissingCoordinate).
MissingCoordinate_FirstOnly(lat1, lon1, lat2, lon2) == lat1 = 0 \/ lon1 = 0

\* if (!lat1 || !lon1 || !lat2 || !lon2)
MissingCoordinate(lat1, lon1, lat2, lon2) ==
  lat1 = 0 \/ lon1 = 0 \/ lat2 = 0 \/ lon2 = 0

\* calculateDistance, in metres: R * c, with c of 2 * Atan2 minutes of arc.
calculateDistance(lat1, lon1, lat2, lon2) ==
  IF MissingCoordinate(lat1, lon1, lat2, lon2) THEN 0
  ELSE LET sinLat == Sin((lat2 - lat1) \div 2)
           sinLon == Sin((lon2 - lon1) \div 2)
           a == Mul(sinLat, sinLat)
                  + Mul(Mul(Mul(Cos(lat1), Cos(lat2)), sinLon), sinLon)
           c == 2 * Atan2(Sqrt(a), Sqrt(Scale - a))
       IN  c * (((R \div 100) * Pi) \div (108 * Scale))

\* calculateDistance is applied to two points, both ways, and to the first
\* point twice.
DistanceInit ==
  /\ SoundInit /\ SocketInit /\ HomeInit
  /\ alertView = [alertId |-> NoAlert, alertDetails |-> NoDetails]
  /\ watch = [ref |-> NoWatch, subs |-> [i \in WatchIds |-> "unused"]]
  /\ calc \in {[fn |-> "calculateDistance", done |-> FALSE, a |-> a, b |-> b,
                 ab |-> 0, ba |-> 0, aa |-> 0] : a, b \in Coordinates}

ApplyCalculateDistance ==
  /\ calc.fn = "calculateDistance"
  /\ ~calc.done
  /\ calc' = [calc EXCEPT
       !.done = TRUE,
       !.ab = calculateDistance(calc.a.latitude, calc.a.longitude,
                                calc.b.latitude, calc.b.longitude),
       !.ba = calculateDistance(calc.b.latitude, calc.b.longitude,
                                calc.a.latitude, calc.a.longitude),
       !.aa = calculateDistance(calc.a.latitude, calc.a.longitude,
                                calc.a.latitude, calc.a.longitude)]
  /\ UNCHANGED <<alertView, watch, soundVars, sockVars, homeVars, inboxVars>>

NextDistance == ApplyCalculateDistance

SpecDistance == DistanceInit /\ [][NextDistance]_vars

\* The alert view screen over the root layout's socket.
NextView ==
  \/ \E d \in DeviceIds : Connect(d)
  \/ \E reconnectEvent \in BOOLEAN : TransportConnected(reconnectEvent)
  \/ \E reason \in DisconnectReasons : Disconnected(reason)
  \/ \E a \in AlertIds : OpenAlertView(a)
  \/ \E c \in Counts : DetailsResolved(c)
  \/ \E a \in AlertIds : \E c \in Counts \cup {NoCount} : ResponderAddedDelivered(a, c)
  \/ \E i \in WatchIds : WatchResolved(i)
  \/ \E i \in WatchIds : WatchRejected(i)
  \/ CloseAlertView

SpecView == Init /\ [][NextView]_vars

\* The home screen while no alert_ended arrives.
NextExpiry ==
  \/ DeviceIdLoaded
  \/ PermissionGranted
  \/ PushTokenChanged
  \/ \E r \in SetupIds : RegisterResolved(r)
  \/ \E r \in SetupIds : SetupFailed(r)
  \/ \E r \in SetupIds : \E status \in StatusReplies : StatusResolved(r, status)
  \/ \E i \in PressIds : Press(i)
  \/ \E i \in PressIds : \E ok \in BOOLEAN : LocationDone(i, ok)
  \/ \E i \in PressIds : \E a \in AlertIds : TriggerResolved(i, a)
  \/ \E i \in PressIds : TriggerRejected(i)
  \/ Tick
  \/ Wait
  \/ CooldownTimerFires
  \/ AlertTimerFires
  \/ \E reconnectEvent \in BOOLEAN : TransportConnected(reconnectEvent)

SpecExpiry == Init /\ [][NextExpiry]_vars

\* The emergency button on its own: the device is set up, the button is
\* pressed, and the location or the trigger request succeeds or fails while
\* the cooldown runs. No alert ends here, so an alert once applied stays.
NextTrigger ==
  \/ DeviceIdLoaded
  \/ PermissionGranted
  \/ \E r \in SetupIds : RegisterResolved(r)
  \/ \E r \in SetupIds : SetupFailed(r)
  \/ \E r \in SetupIds : \E status \in StatusReplies : StatusResolved(r, status)
  \/ \E i \in PressIds : Press(i)
  \/ \E i \in PressIds : \E ok \in BOOLEAN : LocationDone(i, ok)
  \/ \E i \in PressIds : \E a \in AlertIds : TriggerResolved(i, a)
  \/ \E i \in PressIds : TriggerRejected(i)
  \/ Tick
  \/ Wait
  \/ CooldownTimerFires
  \/ \E reconnectEvent \in BOOLEAN : TransportConnected(reconnectEvent)

SpecTrigger == Init /\ [][NextTrigger]_vars

\* The home screen and, over it, the alert view: the device is set up once,
\* the view is opened, follows the location, and is closed.
NextScreens ==
  \/ DeviceIdLoaded
  \/ \E r \in SetupIds : RegisterResolved(r)
  \/ \E r \in SetupIds : SetupFailed(r)
  \/ \E r \in SetupIds : \E status \in StatusReplies : StatusResolved(r, status)
  \/ \E reconnectEvent \in BOOLEAN : TransportConnected(reconnectEvent)
  \/ \E reason \in DisconnectReasons : Disconnected(reason)
  \/ \E a \in AlertIds : OpenAlertView(a)
  \/ \E c \in Counts : DetailsResolved(c)
  \/ ViewLocationChanged
  \/ \E i \in WatchIds : WatchResolved(i)
  \/ \E i \in WatchIds : WatchRejected(i)
  \/ CloseAlertView

SpecScreens == Init /\ [][NextScreens]_vars

\* Alerts of other devices arrive over the socket while earlier bursts are
\* being prepared, played or cleaned up, on a device whose vibrator may fail.
\* Nothing stops a burst here, so a burst never finds a sound of an earlier
\* one to unload.
NextDelivery ==
  \/ DeviceIdLoaded
  \/ \E r \in SetupIds : RegisterResolved(r)
  \/ \E r \in SetupIds : SetupFailed(r)
  \/ \E r \in SetupIds : \E status \in StatusReplies : StatusResolved(r, status)
  \/ \E reconnectEvent \in BOOLEAN : TransportConnected(reconnectEvent)
  \/ \E a \in AlertIds : \E throws \in BOOLEAN : DeliverAlertReceived(a, throws)
  \/ RootInitializeAudio
  \/ \E i \in CallIds, ok \in BOOLEAN : InitializeAudioDone(i, ok)
  \/ \E i \in CallIds : CreateResolved(i)
  \/ \E i \in CallIds : CreateRejected(i)
  \/ \E i \in CallIds : CleanupFires(i)
  \/ \E i \in CallIds : CleanupStopDone(i)
  \/ \E i \in CallIds : CleanupUnloadDone(i)

SpecDelivery == Init /\ [][NextDelivery]_vars

\* What the runtime guarantees of the burst's steps: timeouts fire and the local
\* native calls (audio mode, stop, unload) return.  Audio.Sound.createAsync
\* downloads the sound and carries no timeout: nothing makes it return.
FairSpecSound ==
  /\ SpecSound
  /\ WF_vars(\E i \in CallIds, ok \in BOOLEAN : InitializeAudioDone(i, ok))
  /\ WF_vars(\E i \in CallIds : UnloadDone(i))
  /\ WF_vars(\E i \in CallIds : CleanupFires(i))
  /\ WF_vars(\E i \in CallIds : CleanupStopDone(i))
  /\ WF_vars(\E i \in CallIds : CleanupUnloadDone(i))

\* ------------------------------------------------------ claims: the burst

Playing == {i \in CallIds : sounds[i] = "playing"}

\* C8: at most one sound playback is alive at any time, and every playback that
\* is alive is the one soundObject references (no playback is orphaned).
C8_AtMostOneBurst ==
  /\ Cardinality(Playing) <= 1
  /\ \A i \in Playing : soundObject = i

\* C9: every burst self-clears (once isPlaying is true it becomes false again,
\* whether the sound creation succeeds, fails or never completes), and the
\* cleanup timer of one burst never stops the sound of another burst.
C9_BurstSelfClears ==
  /\ isPlaying ~> ~isPlaying
  /\ [][\A i, j \in CallIds :
          (/\ timers[i] = "armed" /\ timers'[i] = "awaitStop"
           /\ sounds[j] = "playing" /\ sounds'[j] = "stopped") => i = j]_vars

\* C10: after stopEmergencyAlert has returned, no sound of a burst begun before
\* the call is playing, also when its creation was pending at the call.
C10_StopCancelsBurst ==
  \A i \in stoppedCalls : sounds[i] # "playing"

\* ------------------------------------------------------ claims: the socket

\* C5: after a reconnect every alert room joined through subscribeToAlert is
\* joined again: whenever the socket is connected, the server has the
\* connection in the room of every alert subscribed to on this socket.
C5_AlertRoomsRejoined ==
  SocketConnected => \A a \in subscribedAlerts : AlertRoom(a) \in serverRooms

\* C6: on every connect or reconnect join_device_room is emitted for the current
\* deviceId: whenever the socket is connected, the server has the connection in
\* the device's room.
C6_DeviceRoomJoined ==
  SocketConnected => DeviceRoom(sockDeviceId) \in serverRooms

\* C7: at most one socket is live, and it is the service's; a step that makes a
\* new socket while the service's socket is connected is a connect with another
\* deviceId; and a step that makes a new socket closes the one before.
NewSocketMade ==
  \E k \in SocketIds : sockState[k] = "unused" /\ sockState'[k] # "unused"

C7_ConnectIdempotent ==
  /\ [](\A k \in SocketIds : SocketLive(k) => k = socket)
  /\ [][NewSocketMade =>
          /\ SocketConnected => sockDeviceId' # sockDeviceId
          /\ socket # NoSocket => sockState'[socket] = "closed"
          /\ Cardinality({k \in SocketIds : SocketLive(k)'}) = 1]_vars

\* C7 witness: connect was called again with another deviceId while connected;
\* the first socket is closed and the second is the live one.
C7_Witness ==
  /\ socket = 2
  /\ sockState[1] = "closed"
  /\ sockState[2] = "connected"
  /\ sockDeviceId = 2

\* C1 (alert_ended for the device's own Active alert leaves the device Idle):
\* in the state a delivery of alert_ended carrying the alert_id of myActiveAlert
\* leads to, myActiveAlert is null.
C1_RemoteEndLeavesIdle == endedOwn => myActiveAlert = NoAlert

\* The invocations of handleEmergencyPress that are under way.
InProgress == {i \in PressIds : presses[i] # "idle"}

C3_AutoExpiry == activeFor <= ALERT_DURATION + 1

C11_SurfacedStays ==
  [][(incomingAlert # NoAlert /\ incomingAlert' # incomingAlert)
       => (DismissAlert \/ AlertEndedDelivered(incomingAlert))]_vars

\* C12: after a dismissal the surfaced slot is empty and stays empty until an
\* alert_received arrives: while the last dismissal has been followed by no
\* alert_received, nothing is surfaced.
C12_DismissedStaysEmpty == dismissed # NoAlert => incomingAlert = NoAlert

\* C13: the delivery of alert_ended for an alert of another device leaves it
\* neither surfaced nor in nearbyAlerts.
C13_EndedRemoved ==
  [][\A a \in AlertIds :
       (a # myActiveAlert /\ AlertEndedDelivered(a))
         => /\ incomingAlert' # a
            /\ \A k \in 1..Len(nearbyAlerts') : nearbyAlerts'[k] # a]_vars

\* C14: while no alert_ended arrives, the periodic updates bring a device with
\* an active alert back to Idle (the server, which ended the alert, is asked for
\* the device status again).
C14_LostEndReconciled == (myActiveAlert # NoAlert) ~> (myActiveAlert = NoAlert)

\* C15: the delivery of an alert_ended whose alert_id is not that of the
\* device's active alert leaves myActiveAlert, canTrigger, cooldownRemaining
\* and alertStartTime as they were.
C15_OtherEndNoOp ==
  [][\A a \in AlertIds :
       (a # myActiveAlert /\ AlertEndedDelivered(a))
         => UNCHANGED <<myActiveAlert, canTrigger, cooldownRemaining, alertAge>>]_vars

\* C16: no responder_added event makes the mirrored responder_count of the
\* watched alert smaller.
C16_CountNeverDecreases ==
  [][\A a \in AlertIds : \A c \in Counts \cup {NoCount} :
       ResponderAddedDelivered(a, c)
         => alertView'.alertDetails >= alertView.alertDetails]_vars

\* num / den (num >= 0, den > 0) rounded to the nearest integer, a half away
\* from zero.
HalfAwayFromZero(num, den) ==
  IF 2 * (num % den) >= den THEN (num \div den) + 1 ELSE num \div den

\* C17: for a bearing b of [0, 360) in half degrees, getDirectionText returns
\* directions[round(b / 45) mod 8] with halves rounded away from zero, which is
\* one of the eight octants, NE for 22.5, N from 337.5 on; AlertCard's copy
\* returns the same.
C17_DirectionText ==
  (calc.fn = "getDirectionText" /\ calc.done) =>
    /\ calc.text = Directions[(HalfAwayFromZero(calc.bearing, 90) % 8) + 1]
    /\ \E n \in 1..Len(Directions) : calc.text = Directions[n]
    /\ calc.bearing = 45 => calc.text = "NE"
    /\ calc.bearing >= 675 => calc.text = "N"
    /\ calc.card = calc.text

\* getDirectionText has returned NE for 22.5 degrees.
C17_Witness ==
  /\ calc.fn = "getDirectionText"
  /\ calc.done
  /\ calc.bearing = 45
  /\ calc.text = "NE"

\* C18: calculateDistance(a, b) = calculateDistance(b, a), and
\* calculateDistance(a, a) = 0.
C18_DistanceSymmetric ==
  (calc.fn = "calculateDistance" /\ calc.done) =>
    /\ calc.ab = calc.ba
    /\ calc.aa = 0

\* calculateDistance has returned a distance other than 0 for two points.
C18_Witness ==
  /\ calc.fn = "calculateDistance"
  /\ calc.done
  /\ calc.a # calc.b
  /\ calc.ab > 0

\* C19: an ended alert stays ended: the reply of a nearby-alerts fetch that was
\* issued before the alert_ended of an alert it lists, and returns after it,
\* puts that alert neither in nearbyAlerts nor in the surfaced slot.
C19_EndedStaysEnded ==
  [][\A i \in FetchIds :
       FetchDone(i)
         => \A a \in fetches[i].late :
              /\ incomingAlert' # a
              /\ \A k \in 1..Len(nearbyAlerts') : nearbyAlerts'[k] # a]_vars

\* C20: a step in which the device's own alert leaves Active while the
\* cooldown is running keeps cooldownRemaining and leaves canTrigger false.
C20_CooldownSurvivesEnd ==
  [][(myActiveAlert # NoAlert /\ myActiveAlert' = NoAlert /\ cooldownRemaining > 0)
       => (cooldownRemaining' = cooldownRemaining /\ ~canTrigger')]_vars

\* C22: a playAlertBurst call made while isPlaying is true starts no sound
\* and no vibration pattern, and leaves isPlaying and soundObject unchanged.
C22_BusyCallDropped ==
  [][(isPlaying /\ PlayAlertBurst)
       => UNCHANGED <<isPlaying, soundObject, sounds, calls, vibrating>>]_vars

\* C21: a trigger that fails (no location, or the request rejected) applies no
\* result: myActiveAlert, canTrigger, cooldownRemaining and the alert's start
\* time keep their values, and isProcessing is cleared.
C21_FailedTriggerUnchanged ==
  [][\A i \in PressIds :
       (LocationDone(i, FALSE) \/ TriggerRejected(i))
         => /\ UNCHANGED <<myActiveAlert, canTrigger, cooldownRemaining, alertAge>>
            /\ ~isProcessing']_vars

\* An accepted press has vibrated and has failed: no alert is active, no
\* invocation is in progress, and the button is free again.
C21_Witness ==
  /\ vibrating
  /\ myActiveAlert = NoAlert
  /\ alertAge = NotStarted
  /\ ~isProcessing
  /\ \A i \in PressIds : presses[i] = "idle"

\* C23: every alert_received delivered to the socket runs the registered
\* callback (setIncomingAlert) in the same step, whether a burst is in flight,
\* the vibration call throws, or a sound is still being created or has failed.
C23_CallbackInvoked ==
  [][\A a \in AlertIds : \A throws \in BOOLEAN :
       DeliverAlertReceived(a, throws) => incomingAlert' = a]_vars

\* An alert has been delivered and surfaced although the vibration threw, and
\* the burst it started is still waiting for its sound to be created.
C23_Witness ==
  /\ incomingAlert # NoAlert
  /\ ~vibrating
  /\ isPlaying
  /\ \E i \in CallIds : calls[i] = "awaitCreate"

\* C24: once the alert view is closed, the connection is in no alert room:
\* every room joined through subscribeToAlert has been left.
C24_RoomsReleased ==
  alertView.alertId = NoAlert => \A a \in AlertIds : AlertRoom(a) \notin serverRooms

\* C25: once the home screen's setup has completed, its alert_received and
\* alert_ended handlers are registered, whatever the alert view has done.
C25_HomeHandlersStay ==
  (\E r \in SetupIds : setups[r].pc = "done")
    => /\ HasListener("alert_received", "homeAlertReceived")
       /\ HasListener("alert_ended", "homeAlertEnded")

\* The home screen's handlers of event ev on the socket.
HomeHandlers(ev) ==
  {n \in 1..Len(listeners) :
     /\ listeners[n].ev = ev
     /\ listeners[n].fn \in {"homeAlertReceived", "homeAlertEnded", "homeResponderAdded"}}

\* C26: at most one home-screen handler is registered per event type, also
\* when the setup effect ran again while an earlier setupDevice was waiting
\* for registerDevice.
C26_OneHomeHandler ==
  \A ev \in SocketEvents : Cardinality(HomeHandlers(ev)) <= 1

\* C27: when the connection of the socket is lost with reason 'io server
\* disconnect' or 'transport close', the socket tries to connect again, also
\* after removeAllListeners.
C27_DisconnectReconnects ==
  [][\A reason \in {"io server disconnect", "transport close"} :
       Disconnected(reason) => sockState'[socket] = "reconnecting"]_vars

\* C28: the delivery of alert_ended for an alert of another device leaves
\* every other alert of nearbyAlerts in nearbyAlerts.
C28_OthersKept ==
  [][\A a \in AlertIds :
       (a # myActiveAlert /\ AlertEndedDelivered(a))
         => \A k \in 1..Len(nearbyAlerts) :
              nearbyAlerts[k] # a
                => \E j \in 1..Len(nearbyAlerts') : nearbyAlerts'[j] = nearbyAlerts[k]]_vars

\* The location watches the platform delivers positions for.
ActiveWatches == {i \in WatchIds : watch.subs[i] = "active"}

\* C29: at most one location watch is active at any time, and none is while
\* the alert view is closed.
C29_NoWatchLeak ==
  /\ Cardinality(ActiveWatches) <= 1
  /\ alertView.alertId = NoAlert => ActiveWatches = {}

\* C30: reset() leaves myActiveAlert null, nearbyAlerts empty, selectedAlert
\* null, canTrigger true, cooldownRemaining 0 and error null, leaves deviceId,
\* pushToken, isRegistered, currentLocation, isLoading and isConnected as they
\* were, and applied again changes nothing.
C30_Reset ==
  (calc.fn = "reset" /\ calc.applied >= 1) =>
    /\ calc.once.myActiveAlert = NoAlert
    /\ calc.once.nearbyAlerts = <<>>
    /\ calc.once.selectedAlert = NoAlert
    /\ calc.once.canTrigger
    /\ calc.once.cooldownRemaining = 0
    /\ calc.once.error = "null"
    /\ \A f \in {"deviceId", "pushToken", "isRegistered", "currentLocation",
                  "isLoading", "isConnected"} : calc.once[f] = calc.before[f]
    /\ DOMAIN calc.once = DOMAIN InitialStore
    /\ calc.applied >= 2 => calc.store = calc.once

\* reset() has been applied twice to a store none of whose fields had the
\* value reset() gives or the value it had at creation.
C30_Witness ==
  /\ calc.fn = "reset"
  /\ calc.applied = 2
  /\ \A f \in DOMAIN InitialStore :
       /\ calc.before[f] # InitialStore[f]
       /\ f \in DOMAIN ResetFields => calc.before[f] # ResetFields[f]

====
